---- MODULE Spec2Model ----
(***************************************************************************)
(* The chat relay of src/examples/chat.rs: the peer registry (State.peers, *)
(* a DashMap from client name to mpsc sender), the per-session mailbox     *)
(* (mpsc channel of CHANNEL_BUFFER_SIZE entries), State::add,              *)
(* State::remove_client, State::broadcast and the session loop of          *)
(* process_connection.                                                      *)
(***************************************************************************)
EXTENDS Integers, Sequences, FiniteSets, TLC

\* ---------------------------------------------------------------- bounds
\* Nested broadcast -> remove_client -> broadcast calls the stack of a worker
\* thread holds before it overflows.
MaxDepth == 2
\* Capacity of a mailbox (1024 in the source, scaled down).
CHANNEL_BUFFER_SIZE == 2

\* Connections accepted by main's accept loop (one task each).
Sessions == 1 .. 3
\* Names a client may type, in the iteration order of one shard's table.
NameList == <<"alice", "bob", "carol">>
Names == {NameList[i] : i \in 1 .. Len(NameList)}
Idx(n) == CHOOSE i \in 1 .. Len(NameList) : NameList[i] = n
NoName == ""
\* The names the client of connection s may type: the first connections each
\* have a name of their own, the last one may also reuse a name.
NameChoices(s) == IF s < Len(NameList) THEN {NameList[s]} ELSE Names
\* Shards of the DashMap; a key lives in the shard its hash selects.
Shards == {0, 1}
\* The placements of the names the map's random hasher may produce. Iteration
\* goes by shard, then by NameList's order within a shard. alice's shard comes
\* first: a placement with another name's shard first is one of these with the
\* connections renamed.
Placements == {f \in [Names -> Shards] : f["alice"] = 0}

VARIABLES
    pc,        \* session -> "Handshaking" | "Active" | "Closing" | "Closed"
    name,      \* session -> client_name (NoName before the handshake)
    peers,     \* State.peers: registered name -> session owning the receiver
    shardOf,   \* name -> shard (fixed by the map's random hasher)
    mailbox,   \* session -> messages queued in its mpsc channel
    out,       \* session -> lines written to its Line Channel while it is open
    stack,     \* session -> frames of its running broadcast call (last = innermost)
    crashed,   \* the process aborted on a stack overflow
    lines,     \* lines read so far in the select loops (all sessions)
    garbled,   \* history: the session that skipped a malformed line last (0: none)
    regSeq,    \* history: sessions in the order State::add registered them
    audience   \* history: session -> sessions registered when its running
               \*          outermost broadcast was called

vars == <<pc, name, peers, shardOf, mailbox, out, stack, crashed,
          lines, garbled, regSeq, audience>>

\* ------------------------------------------------------------- messages
UserJoined(n) == [type |-> "UserJoined", client_name |-> n, content |-> ""]
UserLeft(n) == [type |-> "UserLeft", client_name |-> n, content |-> ""]
Chat(n, c) == [type |-> "Chat", client_name |-> n, content |-> c]

\* impl fmt::Display for Message
Format(m) ==
    CASE m.type = "UserJoined" -> "[" \o m.client_name \o "] joined"
      [] m.type = "UserLeft" -> "[" \o m.client_name \o "] left"
      [] OTHER -> "[" \o m.client_name \o "]: " \o m.content

\* The lines the clients type, in the order they are read; a line arrives
\* intact or malformed.
Texts == <<"hello">>

\* ------------------------------------------------------------- registry
EmptyMap == [n \in {} |-> 1]

\* Insert as entry(n).or_insert(s) would do it: an existing entry is kept.
InsertMut(reg, n, s) ==
    IF n \in DOMAIN reg THEN reg
    ELSE [k \in DOMAIN reg \cup {n} |-> IF k = n THEN s ELSE reg[k]]

\* DashMap::insert: the entry of key n is replaced.
Insert(reg, n, s) == [k \in DOMAIN reg \cup {n} |-> IF k = n THEN s ELSE reg[k]]

\* DashMap::remove: no effect when the key is absent.
Remove(reg, n) == [k \in DOMAIN reg \ {n} |-> reg[k]]

\* The receiver of session t is alive while process_connection owns `peer`.
RxOpen(t) == pc[t] \in {"Active", "Closing"}

\* Session s is the one registered under its name.
Registered(s) == name[s] \in DOMAIN peers /\ peers[name[s]] = s

\* A shard is read-locked by every iterator positioned in it.
Readers(k) == {s \in Sessions : \E i \in 1 .. Len(stack[s]) : stack[s][i].held = k}

\* insert and remove take the shard's write lock: no reader may hold it.
CanWrite(n) == Readers(shardOf[n]) = {}

\* mpsc channel: send appends, recv takes the oldest message.
Enqueue(q, m) == Append(q, m)
\* Recv taking the newest message.
RecvMut(q) == q[Len(q)]
Recv(q) == Head(q)
Rest(q) == Tail(q)

\* ------------------------------------------------------------ broadcast
MinName(S) == CHOOSE n \in S : \A m \in S : Idx(n) <= Idx(m)

\* Recipients without the `continue` of the originator's key.
RecipientsMut(reg, m, k) == {n \in DOMAIN reg : shardOf[n] = k}

\* The keys of shard k the loop body acts on: `continue` skips the originator.
Recipients(reg, m, k) == {n \in DOMAIN reg : shardOf[n] = k /\ n # m.client_name}

\* The iterator moved to the first shard >= from that has a recipient, which it
\* read-locks: <<frame>>, or << >> when the iteration is over.
Frames(m, reg, from) ==
    LET ks == {k \in Shards : k >= from /\ Recipients(reg, m, k) # {}}
    IN  IF ks = {} THEN << >>
        ELSE LET k == CHOOSE x \in ks : \A y \in ks : x <= y
             IN  <<[msg |-> m, held |-> k, todo |-> Recipients(reg, m, k)]>>

\* The entry a frame is positioned at.
Cur(f) == MinName(f.todo)

\* The frame after its loop body finished the current entry.
Advance(f, reg) ==
    IF f.todo \ {Cur(f)} # {} THEN <<[f EXCEPT !.todo = f.todo \ {Cur(f)}]>>
    ELSE Frames(f.msg, reg, f.held + 1)

\* The call stack once the innermost frame finished its current entry: a frame
\* whose iteration is over returns to its caller, which goes on with its own.
RECURSIVE Unwind(_, _)
Unwind(stk, reg) ==
    IF stk = << >> THEN << >>
    ELSE LET rest == SubSeq(stk, 1, Len(stk) - 1)
             adv == Advance(stk[Len(stk)], reg)
         IN  IF adv = << >> THEN Unwind(rest, reg) ELSE rest \o adv

Top(s) == stack[s][Len(stack[s])]

\* What process_connection does when its broadcast call returned: the join and
\* chat broadcasts go back to the select loop, the one of the final
\* remove_client returns Ok(()).
AfterCall(s, closing, stk, mb, aud) ==
    /\ stack' = [stack EXCEPT ![s] = stk]
    /\ audience' = [audience EXCEPT ![s] = IF stk = << >> THEN {} ELSE aud]
    /\ IF stk = << >> /\ closing
       THEN /\ pc' = [pc EXCEPT ![s] = "Closed"]
            /\ mailbox' = [mb EXCEPT ![s] = << >>]
            /\ out' = [out EXCEPT ![s] = << >>]
       ELSE /\ pc' = [pc EXCEPT ![s] = IF closing THEN "Closing" ELSE @]
            /\ mailbox' = mb
            /\ out' = out

\* The peers other than n: the sessions registered (their sender is in the map)
\* under another name.
Others(n) == {t \in Sessions : Registered(t) /\ name[t] # n}

\* -------------------------------------------------------------- actions
\* lines.send(prompt) fails: process_connection returns the error.
PromptFail(s) ==
    /\ ~crashed
    /\ pc[s] = "Handshaking"
    /\ pc' = [pc EXCEPT ![s] = "Closed"]
    /\ UNCHANGED <<name, peers, shardOf, mailbox, out, stack, crashed, lines,
                   regSeq, audience, garbled>>

\* HandshakeFail running a teardown: it removes an entry of the registry.
HandshakeFailMut(s) ==
    /\ ~crashed
    /\ pc[s] = "Handshaking"
    /\ \E n \in DOMAIN peers :
          /\ CanWrite(n)
          /\ peers' = Remove(peers, n)
    /\ pc' = [pc EXCEPT ![s] = "Closed"]
    /\ UNCHANGED <<name, shardOf, mailbox, out, stack, crashed, lines,
                   regSeq, audience, garbled>>

\* lines.next() gives None or Some(Err): return Ok(()) without registering.
HandshakeFail(s) ==
    /\ ~crashed
    /\ pc[s] = "Handshaking"
    /\ pc' = [pc EXCEPT ![s] = "Closed"]
    /\ UNCHANGED <<name, peers, shardOf, mailbox, out, stack, crashed, lines,
                   regSeq, audience, garbled>>

\* lines.next() gives the name n: state.add(n), then broadcast(UserJoined).
HandshakeOk(s, n) ==
    /\ ~crashed
    /\ pc[s] = "Handshaking"
    /\ CanWrite(n)
    /\ name' = [name EXCEPT ![s] = n]
    /\ peers' = Insert(peers, n, s)
    /\ regSeq' = Append(regSeq, s)
    /\ pc' = [pc EXCEPT ![s] = "Active"]
    /\ stack' = [stack EXCEPT ![s] = Frames(UserJoined(n), peers', 0)]
    /\ audience' = [audience EXCEPT ![s] =
                       IF stack'[s] = << >> THEN {} ELSE Others(n)]
    /\ UNCHANGED <<shardOf, mailbox, out, crashed, lines, garbled>>

\* select!: peer.rx.recv() gave a message and lines.send(format(msg)) succeeded.
WriteOk(s) ==
    /\ ~crashed
    /\ pc[s] = "Active" /\ stack[s] = << >>
    /\ mailbox[s] # << >>
    /\ out' = [out EXCEPT ![s] = Append(@, Format(Recv(mailbox[s])))]
    /\ mailbox' = [mailbox EXCEPT ![s] = Rest(@)]
    /\ UNCHANGED <<pc, name, peers, shardOf, stack, crashed, lines,
                   regSeq, audience, garbled>>

\* select!: lines.send(format(msg)) failed and `?` returns the error: the
\* receiver is dropped, remove_client is not reached.
WriteFail(s) ==
    /\ ~crashed
    /\ pc[s] = "Active" /\ stack[s] = << >>
    /\ mailbox[s] # << >>
    /\ pc' = [pc EXCEPT ![s] = "Closed"]
    /\ mailbox' = [mailbox EXCEPT ![s] = << >>]
    /\ out' = [out EXCEPT ![s] = << >>]
    /\ UNCHANGED <<name, peers, shardOf, stack, crashed, lines, regSeq,
                   audience, garbled>>

\* select!: lines.next() gave Some(Ok(text)), text being the next of the lines
\* txts the clients type: broadcast(Chat).
ReadText(s, txts) ==
    /\ ~crashed
    /\ pc[s] = "Active" /\ stack[s] = << >>
    /\ lines < Len(txts)
    /\ lines' = lines + 1
    /\ stack' = [stack EXCEPT ![s] = Frames(Chat(name[s], txts[lines']), peers, 0)]
    /\ audience' = [audience EXCEPT ![s] =
                       IF stack'[s] = << >> THEN {} ELSE Others(name[s])]
    /\ UNCHANGED <<pc, name, peers, shardOf, mailbox, out, crashed,
                   regSeq, garbled>>

ReadLine(s) == ReadText(s, Texts)

\* ReadDecodeErr leaving the loop as on end of input: Some(_) => break.
ReadDecodeErrMut(s) ==
    /\ ~crashed
    /\ pc[s] = "Active" /\ stack[s] = << >>
    /\ lines < Len(Texts)
    /\ lines' = lines + 1
    /\ garbled' = s
    /\ CanWrite(name[s])
    /\ peers' = Remove(peers, name[s])
    /\ AfterCall(s, TRUE, Frames(UserLeft(name[s]), peers', 0), mailbox, Others(name[s]))
    /\ UNCHANGED <<name, shardOf, crashed, regSeq>>

\* select!: lines.next() gave Some(Err): Some(_) => (), the line is skipped.
ReadDecodeErr(s) ==
    /\ ~crashed
    /\ pc[s] = "Active" /\ stack[s] = << >>
    /\ lines < Len(Texts)
    /\ lines' = lines + 1
    /\ garbled' = s
    /\ UNCHANGED <<pc, name, peers, shardOf, mailbox, out, stack, crashed,
                   regSeq, audience>>

\* select!: lines.next() gave None: break, then
\* state.remove_client(client_name): peers.remove and broadcast(UserLeft);
\* process_connection returns when that broadcast does.
ReadEof(s) ==
    /\ ~crashed
    /\ pc[s] = "Active" /\ stack[s] = << >>
    /\ CanWrite(name[s])
    /\ peers' = Remove(peers, name[s])
    /\ AfterCall(s, TRUE, Frames(UserLeft(name[s]), peers', 0), mailbox, Others(name[s]))
    /\ UNCHANGED <<name, shardOf, crashed, lines, regSeq, garbled>>

\* Send as try_send would do it: a message for a full mailbox is dropped and
\* the iterator moves on.
SendMut(s) ==
    /\ ~crashed
    /\ stack[s] # << >>
    /\ LET f == Top(s)
           t == peers[Cur(f)]
       IN  /\ RxOpen(t)
           /\ AfterCall(s, pc[s] = "Closing", Unwind(stack[s], peers),
                        IF Len(mailbox[t]) < CHANNEL_BUFFER_SIZE
                        THEN [mailbox EXCEPT ![t] = Enqueue(@, f.msg)]
                        ELSE mailbox, audience[s])
    /\ UNCHANGED <<name, peers, shardOf, crashed, lines, regSeq, garbled>>

\* broadcast's loop body: peer.value().send(message) enqueues (it waits while
\* the mailbox is full), and the iterator moves on.
Send(s) ==
    /\ ~crashed
    /\ stack[s] # << >>
    /\ LET f == Top(s)
           t == peers[Cur(f)]
       IN  /\ RxOpen(t)
           /\ Len(mailbox[t]) < CHANNEL_BUFFER_SIZE
           /\ AfterCall(s, pc[s] = "Closing", Unwind(stack[s], peers),
                        [mailbox EXCEPT ![t] = Enqueue(@, f.msg)], audience[s])
    /\ UNCHANGED <<name, peers, shardOf, crashed, lines, regSeq, garbled>>

\* broadcast's loop body: send fails on a dropped receiver, and
\* remove_client(client_name) removes the message's originator and
\* broadcasts UserLeft for it, in a nested call.
SendFail(s) ==
    /\ ~crashed
    /\ stack[s] # << >>
    /\ Len(stack[s]) < MaxDepth
    /\ LET f == Top(s)
           t == peers[Cur(f)]
           origin == f.msg.client_name
       IN  /\ ~RxOpen(t)
           /\ CanWrite(origin)
           /\ peers' = Remove(peers, origin)
           /\ stack' = [stack EXCEPT ![s] = @ \o Frames(UserLeft(origin), peers', 0)]
    /\ UNCHANGED <<pc, name, shardOf, mailbox, out, crashed, lines,
                   regSeq, audience, garbled>>

\* The same, with no stack left for the nested call: the stack overflows and
\* the process aborts, with every task, the map and every connection.
StackOverflow(s) ==
    /\ ~crashed
    /\ stack[s] # << >>
    /\ Len(stack[s]) = MaxDepth
    /\ LET f == Top(s)
       IN  /\ ~RxOpen(peers[Cur(f)])
           /\ CanWrite(f.msg.client_name)
    /\ crashed' = TRUE
    /\ pc' = [t \in Sessions |-> "Closed"]
    /\ peers' = EmptyMap
    /\ mailbox' = [t \in Sessions |-> << >>]
    /\ out' = [t \in Sessions |-> << >>]
    /\ stack' = [t \in Sessions |-> << >>]
    /\ audience' = [t \in Sessions |-> {}]
    /\ UNCHANGED <<name, shardOf, lines, regSeq, garbled>>

\* ---------------------------------------------------------------- spec
Init ==
    /\ pc = [s \in Sessions |-> "Handshaking"]
    /\ name = [s \in Sessions |-> NoName]
    /\ peers = EmptyMap
    /\ shardOf \in Placements
    /\ mailbox = [s \in Sessions |-> << >>]
    /\ out = [s \in Sessions |-> << >>]
    /\ stack = [s \in Sessions |-> << >>]
    /\ crashed = FALSE
    /\ lines = 0
    /\ garbled = 0
    /\ regSeq = << >>
    /\ audience = [s \in Sessions |-> {}]

Next ==
    \E s \in Sessions :
        \/ PromptFail(s)
        \/ HandshakeFail(s)
        \/ \E n \in NameChoices(s) : HandshakeOk(s, n)
        \/ WriteOk(s)
        \/ WriteFail(s)
        \/ ReadLine(s)
        \/ ReadDecodeErr(s)
        \/ ReadEof(s)
        \/ Send(s)
        \/ SendFail(s)
        \/ StackOverflow(s)

Spec == Init /\ [][Next]_vars

\* ----------------------------------------------- a run without failures
\* The clients type two lines, every write succeeds and every connection ends
\* by end of input, so no dropped receiver is ever a value of the registry
\* and no send fails. The runtime polls every task that can make progress:
\* a message a session can write is written, a send that has room completes.
BusyTexts == <<"hello", "bye">>

ReadBusy(s) == ReadText(s, BusyTexts)

BusyNext ==
    \E s \in Sessions :
        \/ HandshakeOk(s, NameList[s])
        \/ WriteOk(s)
        \/ ReadBusy(s)
        \/ ReadEof(s)
        \/ Send(s)

\* All the names hash to one shard.
BusyInit == Init /\ shardOf = [n \in Names |-> 0]

BusySpec ==
    /\ BusyInit
    /\ [][BusyNext]_vars
    /\ \A s \in Sessions : WF_vars(WriteOk(s)) /\ WF_vars(Send(s))

\* --------------------------------------------------------- observations
\* What the client of session t has been or will be sent: the lines written,
\* then the lines of the messages still queued, in queue order.
HistOf(o, mb) == o \o [i \in 1 .. Len(mb) |-> Format(mb[i])]
Hist(t) == HistOf(out[t], mailbox[t])

Count(seq, x) == Cardinality({i \in 1 .. Len(seq) : seq[i] = x})

IsPrefix(p, q) == Len(p) <= Len(q) /\ SubSeq(q, 1, Len(p)) = p

\* The session that registered name n last.
Latest(n) ==
    LET is == {i \in 1 .. Len(regSeq) : name[regSeq[i]] = n}
    IN  regSeq[CHOOSE i \in is : \A j \in is : j <= i]

\* a registered before b did.
Before(a, b) ==
    \E i, j \in 1 .. Len(regSeq) : i < j /\ regSeq[i] = a /\ regSeq[j] = b

\* No other connection used the name of session a.
NameUnique(a) == \A t \in Sessions \ {a} : name[t] # name[a]

\* Session s is inside broadcast at an entry whose receiver is dropped, and the
\* remove it is about to do needs the write lock of a shard that one of its own
\* iterators read-locks: it waits for itself.
SelfBlocked(s) ==
    /\ stack[s] # << >>
    /\ ~RxOpen(peers[Cur(Top(s))])
    /\ s \in Readers(shardOf[Top(s).msg.client_name])

\* --------------------------------------------------------------- claims
\* C1. No self-echo: a Chat message is never queued on a mailbox whose owner
\* has the name of the message's originator.
C1_NoSelfEcho ==
    \A t \in Sessions : \A i \in 1 .. Len(mailbox[t]) :
        mailbox[t][i].type = "Chat" => mailbox[t][i].client_name # name[t]

\* C1 witness: a registered peer's chat line is queued on another peer's mailbox.
C1_Witness ==
    \E p, t \in Sessions :
        /\ p # t /\ Registered(p) /\ RxOpen(p) /\ Registered(t)
        /\ \E i \in 1 .. Len(mailbox[t]) :
              mailbox[t][i].type = "Chat" /\ mailbox[t][i].client_name = name[p]

\* The peers session s's running outermost broadcast owes a copy: registered
\* when it was called, still registered, receiver alive.
Owed(s) == {t \in audience[s] : Registered(t) /\ RxOpen(t)}

\* Session s's outermost broadcast, of a message of type ty, cannot go on.
EndedBlocked(s, ty) ==
    stack[s] # << >> /\ stack[s][1].msg.type = ty /\ SelfBlocked(s)

\* Chat lines of one sender are in one history in the order they were typed.
InTypedOrder(h) ==
    \A p, q \in 1 .. Len(h) : \A n \in Names : \A k, l \in 1 .. Len(Texts) :
        (p < q /\ h[p] = Format(Chat(n, Texts[k])) /\ h[q] = Format(Chat(n, Texts[l])))
            => k < l

\* C2. Fan-out completeness: once a chat broadcast is over (it returned, or it
\* stopped for good), every peer registered when it was called and still
\* connected holds exactly one copy, and one sender's lines are in order.
C2_FanOutComplete ==
    [][\A s \in Sessions :
          /\ (stack[s] # << >> /\ stack[s][1].msg.type = "Chat"
                /\ stack'[s] = << >> /\ ~crashed')
                => \A t \in audience[s] :
                      (name[t] \in DOMAIN peers' /\ peers'[name[t]] = t
                          /\ pc'[t] \in {"Active", "Closing"})
                      => Count(HistOf(out'[t], mailbox'[t]),
                               Format(stack[s][1].msg)) = 1
          /\ (EndedBlocked(s, "Chat"))'
                => \A t \in Owed(s)' :
                      Count(Hist(t)', Format(stack'[s][1].msg)) = 1
          /\ InTypedOrder(Hist(s)')
      ]_vars

\* C3. Dead-peer eviction: when a send fails on peer X's dropped receiver, the
\* nested call removes X from the registry and broadcasts UserLeft for X, and
\* the process does not abort.
C3_DeadPeerEvicted ==
    /\ ~crashed
    /\ \A s \in Sessions : \A i \in 2 .. Len(stack[s]) :
          LET x == Cur(stack[s][i - 1])
          IN  x \notin DOMAIN peers /\ stack[s][i].msg = UserLeft(x)

\* C4. Leave visibility, for a peer A whose name no other connection used and
\* a connected peer B: no "left" line for A while A is in its session loop,
\* never more than one, and once A's session is over A's name is no key of
\* the registry.
C4_LeaveVisible ==
    \A a, b \in Sessions :
        (a # b /\ name[a] # NoName /\ NameUnique(a) /\ RxOpen(b) /\ ~crashed)
        => LET n == Count(Hist(b), Format(UserLeft(name[a])))
           IN  /\ pc[a] = "Active" => n = 0
               /\ n <= 1
               /\ pc[a] = "Closed" => name[a] \notin DOMAIN peers

\* C5. Join visibility: once A's join broadcast is over (it returned, or it
\* stopped for good), every peer registered before it and still connected
\* holds exactly one "joined" line for A, and A itself holds none.
C5_JoinVisible ==
    [][\A s \in Sessions :
          /\ (stack[s] # << >> /\ stack[s][1].msg.type = "UserJoined"
                /\ stack'[s] = << >> /\ ~crashed')
                => \A t \in audience[s] :
                      (name[t] \in DOMAIN peers' /\ peers'[name[t]] = t
                          /\ pc'[t] \in {"Active", "Closing"} /\ NameUnique(s))
                      => Count(HistOf(out'[t], mailbox'[t]),
                               Format(stack[s][1].msg)) = 1
          /\ (EndedBlocked(s, "UserJoined"))'
                => \A t \in Owed(s)' :
                      Count(Hist(t)', Format(stack'[s][1].msg)) = 1
          /\ (name'[s] # NoName /\ NameUnique(s)')
                => Count(Hist(s)', Format(UserJoined(name'[s]))) = 0
      ]_vars

\* C6. Re-registration: the registry holds, for a name, the sender of the
\* session that registered it last, and a message is only ever queued on the
\* mailbox of the last session registered under its owner's name.
C6_ReRegistration ==
    [][/\ \A n \in DOMAIN peers' : peers'[n] = Latest(n)'
       /\ \A t \in Sessions :
             Len(mailbox'[t]) > Len(mailbox[t]) => t = Latest(name[t])
      ]_vars

\* C6 witness: two sessions registered one name, the first still runs, and the
\* second, which holds the registry entry, was sent another peer's message.
C6_Witness ==
    \E a, b \in Sessions :
        /\ name[a] = name[b] /\ Before(a, b)
        /\ pc[a] = "Active" /\ pc[b] = "Active" /\ Registered(b)
        /\ Hist(b) # << >>

\* C7. A session that was Active and is over has deregistered its name: the
\* registry does not hold its sender.
C7_WriteFailureCloses ==
    \A s \in Sessions :
        (pc[s] = "Closed" /\ name[s] # NoName /\ ~crashed) => ~Registered(s)

\* C8. Failure isolation: no session is aborted, and none is blocked for good,
\* by the write failure of another peer.
C8_FailureIsolation ==
    /\ ~crashed
    /\ \A s \in Sessions : ~SelfBlocked(s)

\* C9. Per-mailbox FIFO: the lines written followed by the lines queued only
\* ever grow at the end, so lines are written in the order their messages were
\* queued; and a peer registered before bob sees "[bob] joined" before any
\* "[bob]: text".
C9_Fifo ==
    [][\A s \in Sessions :
          /\ pc'[s] \in {"Active", "Closing"}
                => IsPrefix(Hist(s), HistOf(out'[s], mailbox'[s]))
          /\ IsPrefix(out[s], out'[s]) \/ out'[s] = << >>
          /\ \A b \in Sessions : \A i \in 1 .. Len(out'[s]) : \A k \in 1 .. Len(Texts) :
                (Before(s, b)' /\ NameUnique(b)'
                    /\ out'[s][i] = Format(Chat(name'[b], Texts[k])))
                => \E j \in 1 .. i - 1 : out'[s][j] = Format(UserJoined(name'[b]))
      ]_vars

\* C9 witness: alice, registered before bob, was written "[bob] joined" and
\* then "[bob]: hello".
C9_Witness ==
    \E a, b \in Sessions :
        /\ Before(a, b) /\ name[a] = "alice" /\ name[b] = "bob"
        /\ \E i, j \in 1 .. Len(out[a]) :
              i < j /\ out[a][i] = "[bob] joined" /\ out[a][j] = "[bob]: hello"

\* C10. Handshake failure leaves no trace: the step that takes a session from
\* Handshaking to Closed changes neither the registry nor any mailbox nor any
\* running broadcast, and such a session is never a value of the registry.
C10_HandshakeNoTrace ==
    [][\A s \in Sessions :
          (pc[s] = "Handshaking" /\ pc'[s] = "Closed" /\ ~crashed')
          => /\ peers' = peers
             /\ mailbox' = mailbox
             /\ stack' = stack
             /\ name'[s] = NoName
             /\ \A n \in DOMAIN peers' : peers'[n] # s
      ]_vars

\* C10 witness: a handshake failed while a peer was registered and running.
C10_Witness ==
    \E s, t \in Sessions :
        /\ pc[s] = "Closed" /\ name[s] = NoName /\ ~crashed
        /\ Registered(t) /\ pc[t] = "Active"

\* C11. Broadcast terminates: no call overflows the stack, none waits for
\* itself, and a nested call is never positioned at the entry whose failed
\* send caused it (that peer was deregistered before the nested call).
C11_BroadcastTerminates ==
    \A s \in Sessions :
        /\ ~crashed
        /\ stack[s] # << >> => ~SelfBlocked(s)
        /\ \A i, j \in 1 .. Len(stack[s]) :
              i < j => Cur(stack[s][j]) # Cur(stack[s][i])

\* Session p's broadcast is suspended at the full mailbox of a live peer.
WaitsOn(p) ==
    IF stack[p] = << >> THEN {}
    ELSE LET t == peers[Cur(Top(p))]
         IN  IF RxOpen(t) /\ Len(mailbox[t]) >= CHANNEL_BUFFER_SIZE THEN {t} ELSE {}

\* C12. A slow reader never stalls delivery to others: while p's broadcast is
\* suspended at the full mailbox of s, every other peer the broadcast owes a
\* copy and whose mailbox has room already holds it.
C12_SlowReaderNoStall ==
    \A p \in Sessions : \A s \in WaitsOn(p) :
        Len(stack[p]) = 1
        => \A q \in Owed(p) \ {s, p} :
              Len(mailbox[q]) < CHANNEL_BUFFER_SIZE
              => Count(Hist(q), Format(Top(p).msg)) >= 1

\* C14. Disconnect drives the session to Closed: the step in which an Active
\* session notices that its connection is closed (a read or a write failed)
\* deregisters its name and starts the broadcast of UserLeft for it (or there
\* is no other peer to tell), and the session is Closed only once that
\* broadcast returned.
C14_DisconnectCloses ==
    [][\A s \in Sessions :
          (pc[s] = "Active" /\ pc'[s] # "Active" /\ ~crashed')
          => /\ ~Registered(s)'
             /\ \/ stack'[s] # << >> /\ stack'[s][1].msg = UserLeft(name[s])
                \/ pc'[s] = "Closed" /\ Others(name[s])' = {}
      ]_vars

\* C15. Bounded mailbox without silent drops: no mailbox ever holds more than
\* CHANNEL_BUFFER_SIZE messages, and a broadcast positioned at a live peer
\* stays there until its message is appended to that peer's mailbox: at a
\* full mailbox it waits, it never moves on without having enqueued.
C15_BoundedNoDrop ==
    [][/\ \A t \in Sessions : Len(mailbox'[t]) <= CHANNEL_BUFFER_SIZE
       /\ \A s \in Sessions :
             (stack[s] # << >> /\ RxOpen(peers[Cur(Top(s))]) /\ ~crashed')
             => LET t == peers[Cur(Top(s))]
                IN  \/ stack'[s] = stack[s] /\ pc'[s] = pc[s]
                    \/ /\ Len(mailbox[t]) < CHANNEL_BUFFER_SIZE
                       /\ mailbox'[t] = Append(mailbox[t], Top(s).msg)
      ]_vars

\* C15 witness: a broadcast is suspended at the full mailbox of a live peer
\* that has already written lines, so slots of it were freed and filled again.
C15_Witness ==
    \E p \in Sessions : \E t \in WaitsOn(p) :
        Len(mailbox[t]) = CHANNEL_BUFFER_SIZE /\ out[t] # << >>

\* The names a register (by a session still in its handshake) or an
\* unregister (by a session in its select loop) would write to the registry.
WriteIntents ==
    UNION {NameChoices(h) : h \in {x \in Sessions : pc[x] = "Handshaking"}}
        \cup {name[b] : b \in {x \in Sessions : pc[x] = "Active" /\ stack[x] = << >>}}

\* C17. Registry operations are not serialized behind a stalled broadcast:
\* while p's broadcast is suspended at the full mailbox of t, a register or
\* unregister of a name other than p's and t's does not have to wait for it,
\* and no broadcast waits for itself to deregister a peer.
C17_RegistryNotSerialized ==
    /\ \A p \in Sessions : \A t \in WaitsOn(p) :
          \A n \in WriteIntents \ {name[p], name[t]} : p \notin Readers(shardOf[n])
    /\ \A p \in Sessions : stack[p] # << >> => ~SelfBlocked(p)

\* C18. The registry tracks exactly the connected peers: a session in its
\* loop that no later registration of its name superseded has its sender in
\* the registry, and the entry of a session whose receiver is alive goes away
\* only by that session's own teardown or by a later registration of its name.
C18_RegistryTracksPeers ==
    [][\A s \in Sessions :
          /\ (pc'[s] = "Active" /\ s = Latest(name[s])') => Registered(s)'
          /\ (Registered(s) /\ RxOpen(s) /\ ~Registered(s)' /\ ~crashed')
                => \/ pc[s] = "Active" /\ pc'[s] # "Active"
                   \/ name[s] \in DOMAIN peers'
      ]_vars

\* C19. Teardown of a superseded session touches only its own registration:
\* when session a, whose name session b registered after it, leaves its loop
\* while b is connected, b's entry stays in the registry and a starts no
\* broadcast of UserLeft for the name.
C19_SupersededTeardown ==
    [][\A a, b \in Sessions :
          (/\ name[a] = name[b] /\ Before(a, b)
           /\ Registered(b) /\ pc[b] = "Active"
           /\ pc[a] = "Active" /\ pc'[a] # "Active" /\ ~crashed')
          => /\ Registered(b)'
             /\ stack'[a] = << >>
      ]_vars

\* C16. Decode errors are non-fatal in Active: the step in which a session
\* skips a malformed line leaves every session's state, the registry, every
\* mailbox, every line written and every broadcast call as they were: the
\* session stays Active, registered if it was, and starts no broadcast.
C16_DecodeErrNonFatal ==
    [][garbled' # garbled \/ (\E s \in Sessions : ReadDecodeErr(s))
          => /\ pc' = pc /\ pc[garbled'] = "Active"
             /\ peers' = peers
             /\ mailbox' = mailbox
             /\ out' = out
             /\ stack' = stack /\ stack[garbled'] = << >>
      ]_vars

\* C16 witness: a registered session that skipped a malformed line is Active
\* and registered, with another peer connected, and no chat line was read.
C16_Witness ==
    \E s, t \in Sessions :
        /\ garbled = s /\ lines = 1
        /\ pc[s] = "Active" /\ Registered(s)
        /\ t # s /\ Registered(t) /\ pc[t] = "Active"

\* The sessions in their loop that are suspended inside broadcast.
Suspended == {s \in Sessions : pc[s] = "Active" /\ WaitsOn(s) # {}}

\* C20. No mutual-enqueue deadlock: there is no set of two or more Active
\* sessions each suspended inside broadcast at the full mailbox of another
\* session of the set.
C20_NoMutualEnqueueDeadlock ==
    \A D \in SUBSET Suspended :
        Cardinality(D) >= 2 => \E s \in D : ~(WaitsOn(s) \subseteq D)

\* C13. Dual-wait fairness: a message in the mailbox of a session in its loop
\* is eventually written to its Line Channel (the mailbox gets empty) unless
\* the session leaves the loop.
C13_DualWaitFair ==
    \A s \in Sessions :
        (pc[s] = "Active" /\ mailbox[s] # << >>)
            ~> (pc[s] # "Active" \/ mailbox[s] = << >>)

====
